---- MODULE Spec2Model ----
(***************************************************************************)
(* Model of the MCMC density-control strategy of gaussian-splatting-cuda   *)
(* (core/mcmc.cpp, core/mcmc.hpp) and of the viewer's locked read of the   *)
(* model (visualizer/scene_renderer.cpp).                                  *)
(*                                                                         *)
(* Tensors live in a heap keyed by tensor identity (TensorImpl address):   *)
(* the model fields and the optimizer's parameter groups hold identities,  *)
(* the Adam state map is keyed by identity.  Rows are 1-based here, the    *)
(* code's row i is row i+1.  Real values are kept on small grids:          *)
(*   opacity   level 0 = exactly 0, level OpOne = exactly 1 (saturated     *)
(*             sigmoid), the levels between are increasing opacities;      *)
(*   scale     an index on a logarithmic grid;                             *)
(*   the other fields are tags modulo TagMod.                              *)
(***************************************************************************)
EXTENDS Integers, Sequences, FiniteSets, TLC

VARIABLES
    params,      \* MCMC::_params (NullParams before initialize)
    heap,        \* tensor identity -> [rows, grad]
    field_id,    \* SplatData: field -> identity of its tensor
    sh_degree,   \* SplatData active spherical-harmonics degree
    opt_init,    \* MCMC::_optimizer is non-null
    opt_param,   \* optimizer: group -> identity of params()[0]
    opt_lr,      \* optimizer: group -> number of times its lr was multiplied by gamma
    opt_state,   \* optimizer: identity -> Adam state (the state map)
    iter,        \* the training loop's iteration counter
    pc,          \* the call the training loop makes next
    ret,         \* return value of the last relocate_gs / add_new_gs / query
    arg,         \* argument of the last query (empty when there is none)
    loc,         \* locals of the running / last refinement call
    mutex,       \* holder of the splat mutex
    rpc,         \* position of the viewer thread
    view         \* what the viewer's rasterize call has read so far

vars == <<params, heap, field_id, sh_degree, opt_init, opt_param, opt_lr,
          opt_state, iter, pc, ret, arg, loc, mutex, rpc, view>>

modelVars == <<params, heap, field_id, sh_degree, opt_init, opt_param, opt_lr, opt_state>>

-----------------------------------------------------------------------------
(* Bounds of the model *)

\* initial number of rows (growth by 5% needs at least 20 rows to add one)
InitN == 20
\* growth head-room: the larger configured max_cap is InitN + CapRoom
CapRoom == 2
\* number of rows that start with a dead opacity
MaxInitDead == 2
\* quantiles of the weight distribution a multinomial draw may land on
Quantiles == 2
\* gradient patterns a backward pass may produce
GradPatterns == 2
\* highest spherical-harmonics degree of the model
MaxShDegree == 2
\* multiples of 1000 a long run is followed through
ShRounds == 3
\* row counts fed to the growth-size computation
MaxCalcN == 120
\* iterations fed to is_refining
MaxCalcIter == 12
\* largest refinement threshold / period tried for is_refining
MaxCalcCfg == 3
\* how far above the growth target the max_cap values tried reach
CalcCapSlack == 5
\* longest run length configured for the scheduler on its own
MaxSchedIters == 8
\* most scheduler steps taken in a row
MaxSchedSteps == 12
\* longest weight vector, largest weight and most draws given to the sampler alone
MaxSampleLen == 3
MaxWeight == 2
MaxDraws == 2
\* uniform draws tried: u = k / UGrid for k < UGrid, and k = UGrid for the largest
\* float below 1
UGrid == 4
\* most times one row, and a second row, occur in a sample given to the ratio
\* computation alone
MaxRepeat == 52
MaxOther == 2
\* length of the short runs that refine on every iteration, the first included
EarlyIterations == 1
\* rows of the binomial table compared with exact integer arithmetic
MaxExactN == 12

-----------------------------------------------------------------------------
(* Program constants and grids *)

\* parameter groups in the order initialize() builds them (0-based in the code)
MEANS == 1
SH0 == 2
SHN == 3
SCALING == 4
ROTATION == 5
OPACITY == 6
NumFields == 6
Fields == 1..NumFields

\* BINOMIAL_MAX_N
BinomialMaxN == 51
\* 1.05f as a float32: F32Mant105 / 2^23
F32Mant105 == 8808038
F32MantBits == 23
\* iter % 1000 in post_backward
ShEvery == 1000

\* opacity grid: sigmoid maps raw level r to opacity level r + OpShift
OpOne == 8
OpShift == 2
\* scale grid: exp maps raw index r to scale index r + ScaleShift
ScaleShift == 1
ScaleMax == 3
\* tags of the other fields
TagMod == 2
\* distance between the two opacity levels alive rows start at
AliveSpread == 3

Max(a, b) == IF a >= b THEN a ELSE b
Min(a, b) == IF a <= b THEN a ELSE b

RECURSIVE Pow2(_)
Pow2(k) == IF k = 0 THEN 1 ELSE 2 * Pow2(k - 1)

NullParams == [null |-> TRUE]

NoLocals == [dead |-> <<>>, sampled |-> <<>>, n_new |-> 0]

\* fresh tensor identity for a tensor that replaces `old`
NewTensorId(old) == IF old <= NumFields THEN old + NumFields ELSE old - NumFields

-----------------------------------------------------------------------------
(* SplatData accessors *)

Rows(f) == heap[field_id[f]].rows

\* SplatData::size()
Size == Len(Rows(MEANS))

\* torch::sigmoid on the opacity grid
Sigmoid(r) == r + OpShift
\* torch::logit on the opacity grid
Logit(o) == o - OpShift
\* torch::exp / torch::log on the scale grid
Exp(r) == r + ScaleShift
Log(s) == s - ScaleShift

\* SplatData::get_opacity(), squeezed to one value per row
GetOpacity == [i \in 1..Len(Rows(OPACITY)) |-> Sigmoid(Rows(OPACITY)[i])]
\* SplatData::get_scaling()
GetScaling == [i \in 1..Len(Rows(SCALING)) |-> Exp(Rows(SCALING)[i])]

-----------------------------------------------------------------------------
(* Tensor helpers *)

Range(f) == {f[x] : x \in DOMAIN f}

\* torch::zeros({n, ...})
Zeros(n) == [i \in 1..n |-> 0]

\* t.index_select(0, idx)
IndexSelect(t, idx) == [j \in 1..Len(idx) |-> t[idx[j]]]

\* t.index_put_({idx}, values): with a repeated index any of its values may land;
\* every caller passes equal values for equal indices
IndexPut(t, idx, values) ==
    [i \in 1..Len(t) |->
        IF \E j \in 1..Len(idx) : idx[j] = i
        THEN values[CHOOSE j \in 1..Len(idx) : idx[j] = i]
        ELSE t[i]]

\* t.index_put_({idx}, 0)
IndexFill(t, idx, v) == [i \in 1..Len(t) |-> IF i \in Range(idx) THEN v ELSE t[i]]

\* mask.nonzero().squeeze(-1): the rows satisfying the mask, ascending
RECURSIVE NonzeroUpTo(_, _)
NonzeroUpTo(mask, n) ==
    IF n = 0 THEN <<>>
    ELSE IF mask[n] THEN Append(NonzeroUpTo(mask, n - 1), n)
         ELSE NonzeroUpTo(mask, n - 1)
Nonzero(mask) == NonzeroUpTo(mask, Len(mask))

\* torch::clamp(x, lo, hi) = min(max(x, lo), hi)
Clamp(x, lo, hi) == Min(Max(x, lo), hi)

\* t.cumsum(0)
RECURSIVE CumsumUpTo(_, _)
CumsumUpTo(w, i) ==
    IF i = 0 THEN <<>>
    ELSE LET prev == CumsumUpTo(w, i - 1)
         IN  Append(prev, (IF i = 1 THEN 0 ELSE prev[i - 1]) + w[i])
Cumsum(w) == CumsumUpTo(w, Len(w))

-----------------------------------------------------------------------------
(* Weighted sampler, library path (num_elements <= MULTINOMIAL_LIMIT) *)

\* the row a draw lands on when it falls on quantile k/Quantiles of the weights:
\* the first row whose cumulative weight reaches it (always a row of positive weight)
QuantileIdx(cumsum, k) ==
    CHOOSE i \in 1..Len(cumsum) :
        /\ Quantiles * cumsum[i] >= k * cumsum[Len(cumsum)]
        /\ (i > 1 => Quantiles * cumsum[i - 1] < k * cumsum[Len(cumsum)])

\* torch::multinomial(weights, n, true): the index vectors it may return
\* (it raises when the weights sum to 0: no result)
MultinomialSample(w, n) ==
    LET cumsum == Cumsum(w)
    IN  IF Len(w) = 0 \/ cumsum[Len(w)] <= 0 THEN {}
        ELSE [1..n -> {QuantileIdx(cumsum, k) : k \in 1..Quantiles}]

-----------------------------------------------------------------------------
(* Weighted sampler, manual path (lines 31-61), on the draws u it is given *)

\* cumsum_data[i] < u for the normalized weights: an all-zero weight vector
\* normalizes to NaN, which is below nothing; `short` says that the float32
\* cumulative sum ends below the largest float under 1
CumsumBelow(w, k, short) ==
    LET cumsum == Cumsum(w)
        sum == cumsum[Len(w)]
    IN  [i \in 1..Len(w) |->
            IF sum = 0 THEN FALSE
            ELSE cumsum[i] * UGrid < k * sum \/ (k = UGrid /\ short)]

\* the binary search of lines 47-57
RECURSIVE BinarySearch(_, _, _, _)
BinarySearch(below, left, right, idx) ==
    IF left > right THEN idx
    ELSE LET mid == (left + right) \div 2
         IN  IF below[mid] THEN BinarySearch(below, mid + 1, right, idx)
             ELSE BinarySearch(below, left, mid - 1, mid)

\* the search starting from an index one past the end
ManualIndexFromEnd(below, num_elements) ==
    BinarySearch(below, 1, num_elements, num_elements + 1)

\* one pass of the loop body: idx = 0, left = 0, right = num_elements - 1
ManualIndex(below, num_elements) == BinarySearch(below, 1, num_elements, 1)

\* the indices the manual path returns for the draws us
ManualMultinomialSample(w, us, short) ==
    [j \in 1..Len(us) |-> ManualIndex(CumsumBelow(w, us[j], short), Len(w))]

-----------------------------------------------------------------------------
(* Relocation *)

\* calculate_relocation_ratios: occurrences of each sampled index, plus one,
\* clamped to [1, n_max]
CountOf(idx, i) == Cardinality({j \in 1..Len(idx) : idx[j] = i})
\* the ratios without the clamp
CalculateRelocationRatiosUnclamped(sampled_idxs, n_max) ==
    [j \in 1..Len(sampled_idxs) |-> CountOf(sampled_idxs, sampled_idxs[j]) + 1]

\* the ratios as the clamped count, without the one added to it
CalculateRelocationRatiosCountOnly(sampled_idxs, n_max) ==
    [j \in 1..Len(sampled_idxs) |->
        Clamp(CountOf(sampled_idxs, sampled_idxs[j]), 1, n_max)]

CalculateRelocationRatios(sampled_idxs, n_max) ==
    [j \in 1..Len(sampled_idxs) |->
        Clamp(CountOf(sampled_idxs, sampled_idxs[j]) + 1, 1, n_max)]

\* gsplat::relocation, opacity: 1 - (1 - o)^(1/ratio) on the opacity grid
\* (levels strictly between 0 and OpOne are exponents e of 1 - q^e)
RelocationOpacity(o, ratio) ==
    IF o <= 0 THEN 0
    ELSE IF o >= OpOne THEN OpOne
    ELSE (o + ratio - 1) \div ratio

\* gsplat::relocation, scale: shrinks with the ratio, stays positive
RelocationScale(s, ratio) == Max(s - (ratio - 1), 0)

\* the opacity just below 1 that the clamp allows: 1 - MIN_OPACITY_CLAMP
OpClampMax == OpOne - 1

\* the clamp without its lower bound
ClampedOpacityNoFloor(new_opacity, min_opacity) == Min(new_opacity, OpClampMax)

\* the clamp without its upper bound
ClampedOpacityNoCeiling(new_opacity, min_opacity) == Max(new_opacity, min_opacity)

\* update_opacity_raw: clamp to [min_opacity, 1 - MIN_OPACITY_CLAMP], store the logit
ClampedOpacity(new_opacity, min_opacity) == Clamp(new_opacity, min_opacity, OpClampMax)
UpdateOpacityRaw(opacity_raw, indices, new_opacities, min_opacity) ==
    IndexPut(opacity_raw, indices,
             [j \in 1..Len(indices) |-> Logit(ClampedOpacity(new_opacities[j], min_opacity))])

\* opacity_raw and scaling_raw after the relocation of the sampled rows
\* (relocate_gs lines 176-189, add_new_gs lines 229-242)
NewOpacities(sampled_idxs) ==
    LET ratios == CalculateRelocationRatios(sampled_idxs, BinomialMaxN)
    IN  [j \in 1..Len(sampled_idxs) |->
            RelocationOpacity(GetOpacity[sampled_idxs[j]], ratios[j])]
NewScales(sampled_idxs) ==
    LET ratios == CalculateRelocationRatios(sampled_idxs, BinomialMaxN)
    IN  [j \in 1..Len(sampled_idxs) |->
            RelocationScale(GetScaling[sampled_idxs[j]], ratios[j])]

\* field f after the parents' update: only opacity_raw and scaling_raw change
UpdatedRows(f, sampled_idxs) ==
    IF f = OPACITY
    THEN UpdateOpacityRaw(Rows(OPACITY), sampled_idxs, NewOpacities(sampled_idxs),
                          params.min_opacity)
    ELSE IF f = SCALING
    THEN IndexPut(Rows(SCALING), sampled_idxs,
                  [j \in 1..Len(sampled_idxs) |-> Log(NewScales(sampled_idxs)[j])])
    ELSE Rows(f)

-----------------------------------------------------------------------------
(* Optimizer state *)

UndefinedTensor == [defined |-> FALSE, rows |-> <<>>]
NoGrad == [defined |-> FALSE, nz |-> {}]

\* the function f without the keys in `keys` (state().erase(key))
Erase(f, keys) == [k \in (DOMAIN f) \ keys |-> f[k]]

\* reset_adam_state_at_indices that leaves the buffers as they are
ResetAdamStateSkipped(state, param_key, indices) == state

\* reset_adam_state_at_indices on the state map
ResetAdamStateAtIndices(state, param_key, indices) ==
    IF param_key \notin DOMAIN state THEN state
    ELSE [state EXCEPT
            ![param_key].exp_avg = IndexFill(@, indices, 0),
            ![param_key].exp_avg_sq = IndexFill(@, indices, 0),
            ![param_key].max_exp_avg_sq =
                IF @.defined THEN [@ EXCEPT !.rows = IndexFill(@, indices, 0)] ELSE @]

\* the rows extend_adam_state appends to a moment buffer
ZerosToAdd(n_new) == Zeros(n_new)

\* extend_adam_state that forgets to extend the second moment
ExtendAdamStateShortSq(old_state, n_new) ==
    [step |-> old_state.step,
     exp_avg |-> old_state.exp_avg \o ZerosToAdd(n_new),
     exp_avg_sq |-> old_state.exp_avg_sq,
     max_exp_avg_sq |-> old_state.max_exp_avg_sq]

\* extend_adam_state that allocates fresh zero buffers of the new length
ExtendAdamStateZeroed(old_state, n_new) ==
    [step |-> old_state.step,
     exp_avg |-> Zeros(Len(old_state.exp_avg) + n_new),
     exp_avg_sq |-> Zeros(Len(old_state.exp_avg_sq) + n_new),
     max_exp_avg_sq |-> old_state.max_exp_avg_sq]

\* extend_adam_state
ExtendAdamState(old_state, n_new) ==
    [step |-> old_state.step,
     exp_avg |-> old_state.exp_avg \o ZerosToAdd(n_new),
     exp_avg_sq |-> old_state.exp_avg_sq \o ZerosToAdd(n_new),
     max_exp_avg_sq |->
        IF old_state.max_exp_avg_sq.defined
        THEN [defined |-> TRUE, rows |-> old_state.max_exp_avg_sq.rows \o ZerosToAdd(n_new)]
        ELSE UndefinedTensor]

\* Adam: the state a parameter gets on its first step (amsgrad is off)
FreshAdamState(n) ==
    [step |-> 0, exp_avg |-> Zeros(n), exp_avg_sq |-> Zeros(n),
     max_exp_avg_sq |-> UndefinedTensor]

\* gradient of row i: 1 on the rows the backward pass touched, else 0
GradAt(grad, i) == IF i \in grad.nz THEN 1 ELSE 0

\* Adam moments after a step (magnitudes are kept symbolic: exp_avg counts the
\* nonzero gradients a row has seen, exp_avg_sq twice that)
AdamStepState(st, grad) ==
    [st EXCEPT !.step = @ + 1,
               !.exp_avg = [i \in 1..Len(@) |-> @[i] + GradAt(grad, i)],
               !.exp_avg_sq = [i \in 1..Len(@) |-> @[i] + 2 * GradAt(grad, i)]]

\* Adam parameter update of field f: a row moves one grid step against a nonzero
\* first moment; opacity and scale saturate at the bottom of their grids
AdamStepRows(f, rows, exp_avg) ==
    [i \in 1..Len(rows) |->
        IF exp_avg[i] = 0 THEN rows[i]
        ELSE IF f = OPACITY THEN Max(rows[i] - 1, Logit(0))
        ELSE IF f = SCALING THEN Max(rows[i] - 1, Log(0))
        ELSE (rows[i] - 1) % TagMod]

-----------------------------------------------------------------------------
(* Configuration *)

\* training length, refinement window and dead threshold of the runs followed
RunIterations == 4
RunStartRefine == 0
RunRefineEvery == 2
\* min_opacity on the opacity grid
RunMinOpacity == 2

ParamSpace ==
    [min_opacity : {RunMinOpacity},
     max_cap : {InitN - 1, InitN + CapRoom},
     start_refine : {RunStartRefine},
     stop_refine : {RunIterations + 1},
     refine_every : {RunRefineEvery},
     iterations : {RunIterations}]

-----------------------------------------------------------------------------
(* Construction and initialize *)

\* rows 1..d start dead (at or below min_opacity), the last row starts saturated,
\* the others start just above min_opacity or well above it
InitOpacityLevel(i, d) ==
    IF i <= d THEN (i - 1) % (RunMinOpacity + 1)
    ELSE IF i = InitN THEN OpOne
    ELSE RunMinOpacity + 1 + AliveSpread * (i % 2)

\* the models handed to the constructor: a few dead rows, or every row dead
InitDead == {MaxInitDead, InitN}

InitRows(f, d) ==
    [i \in 1..InitN |->
        IF f = OPACITY THEN Logit(InitOpacityLevel(i, d))
        ELSE IF f = SCALING THEN Log(1 + (i % ScaleMax))
        ELSE (i + f) % TagMod]

Init ==
    /\ params = NullParams
    /\ \E d \in InitDead :
          heap = [id \in Fields |-> [rows |-> InitRows(id, d), grad |-> NoGrad]]
    /\ field_id = [f \in Fields |-> f]
    /\ sh_degree = 0
    /\ opt_init = FALSE
    /\ opt_param = [g \in Fields |-> 0]
    /\ opt_lr = [g \in Fields |-> 0]
    /\ opt_state = [k \in {} |-> 0]
    /\ iter = 0
    /\ pc = "initialize"
    /\ ret = 0
    /\ arg = <<>>
    /\ loc = NoLocals
    /\ mutex = "free"
    /\ rpc = "idle"
    /\ view = <<>>

\* MCMC::initialize; the training loop then starts at iteration 1
Initialize(space) ==
    /\ pc = "initialize"
    /\ \E p \in space : params' = p
    /\ opt_init' = TRUE
    /\ opt_param' = field_id
    /\ opt_lr' = [g \in Fields |-> 0]
    /\ opt_state' = [k \in {} |-> 0]
    /\ iter' = 1
    /\ pc' = "backward"
    /\ UNCHANGED <<heap, field_id, sh_degree, ret, arg, loc, mutex, rpc, view>>

-----------------------------------------------------------------------------
(* Backward pass (external): leaves gradients on the model's tensors *)

GradRows(pat, n) == IF pat = 1 THEN {1, 2} ELSE {pat + 1, n}

Backward ==
    /\ pc = "backward"
    /\ pc' = "post_backward"
    /\ \E pat \in 1..GradPatterns :
          heap' = [id \in DOMAIN heap |->
                     IF id \in Range(field_id)
                     THEN [heap[id] EXCEPT !.grad =
                              [defined |-> TRUE,
                               nz |-> @.nz \cup GradRows(pat, Len(heap[id].rows))]]
                     ELSE heap[id]]
    /\ UNCHANGED <<params, field_id, sh_degree, opt_init, opt_param, opt_lr, opt_state,
                   iter, ret, arg, loc, mutex, rpc, view>>

-----------------------------------------------------------------------------
(* step *)

\* group of a tracked parameter identity
GroupOf(id) == CHOOSE g \in Fields : opt_param[g] = id

\* torch::optim::Adam::step on the state map: parameters without gradient are skipped
AdamStates ==
    LET stepped == {id \in Range(opt_param) : heap[id].grad.defined}
    IN  [id \in (DOMAIN opt_state) \cup stepped |->
            IF id \in stepped
            THEN AdamStepState(IF id \in DOMAIN opt_state THEN opt_state[id]
                               ELSE FreshAdamState(Len(heap[id].rows)),
                               heap[id].grad)
            ELSE opt_state[id]]

\* torch::optim::Adam::step on the parameters, then zero_grad(true)
AdamHeap(states) ==
    [id \in DOMAIN heap |->
        IF id \in Range(opt_param)
        THEN [rows |-> IF heap[id].grad.defined
                       THEN AdamStepRows(GroupOf(id), heap[id].rows, states[id].exp_avg)
                       ELSE heap[id].rows,
              grad |-> NoGrad]
        ELSE heap[id]]

\* a scheduler step that applies gamma twice
ExponentialLRStepTwice(lr) == [lr EXCEPT ![MEANS] = @ + 2]

\* a scheduler step over every parameter group
ExponentialLRStepAllGroups(lr) == [g \in DOMAIN lr |-> lr[g] + 1]

\* MCMC::ExponentialLR::step: only group param_group_index_ (0, the means) decays
ExponentialLRStep(lr) == [lr EXCEPT ![MEANS] = @ + 1]

\* step without the test of iter against the configured iterations
StepAlways ==
    /\ pc = "step"
    /\ LET states == AdamStates
       IN  /\ opt_state' = states
           /\ heap' = AdamHeap(states)
           /\ opt_lr' = ExponentialLRStep(opt_lr)
    /\ iter' = iter + 1
    /\ pc' = IF iter + 1 > params.iterations THEN "done" ELSE "backward"
    /\ UNCHANGED <<params, field_id, sh_degree, opt_init, opt_param, ret, arg, loc,
                   mutex, rpc, view>>

\* MCMC::step(iter); the loop then moves to the next iteration, up to `iterations`
Step ==
    /\ pc = "step"
    /\ IF iter < params.iterations
       THEN LET states == AdamStates
            IN  /\ opt_state' = states
                /\ heap' = AdamHeap(states)
                /\ opt_lr' = ExponentialLRStep(opt_lr)
       ELSE UNCHANGED <<heap, opt_state, opt_lr>>
    /\ iter' = iter + 1
    /\ pc' = IF iter + 1 > params.iterations THEN "done" ELSE "backward"
    /\ UNCHANGED <<params, field_id, sh_degree, opt_init, opt_param, ret, arg, loc,
                   mutex, rpc, view>>

-----------------------------------------------------------------------------
(* is_refining *)

\* the window closed at stop_refine
IsRefiningInclusive(it) ==
    /\ it <= params.stop_refine
    /\ it > params.start_refine
    /\ it % params.refine_every = 0

IsRefining(it) ==
    /\ it < params.stop_refine
    /\ it > params.start_refine
    /\ it % params.refine_every = 0

-----------------------------------------------------------------------------
(* relocate_gs *)

DeadMask(opacities) == [i \in 1..Len(opacities) |-> opacities[i] <= params.min_opacity]
DeadIndices == Nonzero(DeadMask(GetOpacity))
AliveIndices == Nonzero([i \in 1..Len(GetOpacity) |-> ~DeadMask(GetOpacity)[i]])

\* the local sample used as if it indexed the whole model
SampledLocalUnmapped(alive_indices, sampled_idxs_local) == sampled_idxs_local \o <<>>

\* sampled_idxs = alive_indices.index_select(0, sampled_idxs_local)
SampledFromAlive(alive_indices, sampled_idxs_local) ==
    IndexSelect(alive_indices, sampled_idxs_local) \o <<>>

\* copy_param in the wrong direction: the sampled rows take the dead rows
RelocatedRowsReversed(f, dead_indices, sampled_idxs) ==
    LET updated == UpdatedRows(f, sampled_idxs) \o <<>>
    IN  IndexPut(updated, sampled_idxs, IndexSelect(updated, dead_indices))

\* copy_param after the parents' update: dead rows take the sampled rows
RelocatedRows(f, dead_indices, sampled_idxs) ==
    LET updated == UpdatedRows(f, sampled_idxs) \o <<>>
    IN  IndexPut(updated, dead_indices, IndexSelect(updated, sampled_idxs))

\* the loop over the six groups calling reset_adam_state_at_indices
RECURSIVE ResetGroups(_, _, _)
ResetGroups(state, sampled_idxs, g) ==
    IF g = 0 THEN state
    ELSE ResetAdamStateAtIndices(ResetGroups(state, sampled_idxs, g - 1),
                                 opt_param[g], sampled_idxs)

\* the model's tensors after relocate_gs
RelocatedHeap(dead_indices, sampled_idxs) ==
    [id \in DOMAIN heap |->
        IF id \in Range(field_id)
        THEN [heap[id] EXCEPT !.rows =
                RelocatedRows(CHOOSE f \in Fields : field_id[f] = id,
                              dead_indices, sampled_idxs)]
        ELSE heap[id]]

\* relocate_gs that, when no row is alive, takes every sample from the first row
RelocateGsSamplesAll ==
    /\ pc = "relocate_gs"
    /\ pc' = "add_new_gs"
    /\ LET dead_indices == DeadIndices
           alive_indices == IF Len(AliveIndices) = 0 THEN dead_indices ELSE AliveIndices
       IN  IF Len(dead_indices) = 0
           THEN /\ ret' = 0
                /\ loc' = NoLocals
                /\ UNCHANGED <<heap, opt_state>>
           ELSE \E local \in (IF Len(AliveIndices) = 0
                               THEN {[j \in 1..Len(dead_indices) |-> 1]}
                               ELSE MultinomialSample(
                                        IndexSelect(GetOpacity, alive_indices) \o <<>>,
                                        Len(dead_indices))) :
                  LET sampled_idxs == SampledFromAlive(alive_indices, local)
                  IN  /\ heap' = RelocatedHeap(dead_indices, sampled_idxs)
                      /\ opt_state' = ResetGroups(opt_state, sampled_idxs, NumFields)
                      /\ ret' = Len(dead_indices)
                      /\ loc' = [dead |-> dead_indices, sampled |-> sampled_idxs,
                                 n_new |-> 0]
    /\ UNCHANGED <<params, field_id, sh_degree, opt_init, opt_param, opt_lr,
                   iter, arg, mutex, rpc, view>>

RelocateGs ==
    /\ pc = "relocate_gs"
    /\ pc' = "add_new_gs"
    /\ LET dead_indices == DeadIndices
           alive_indices == AliveIndices
       IN  IF Len(dead_indices) = 0 \/ Len(alive_indices) = 0
           THEN /\ ret' = 0
                /\ loc' = NoLocals
                /\ UNCHANGED <<heap, opt_state>>
           ELSE \E local \in MultinomialSample(IndexSelect(GetOpacity, alive_indices) \o <<>>,
                                               Len(dead_indices)) :
                  LET sampled_idxs == SampledFromAlive(alive_indices, local)
                  IN  /\ heap' = RelocatedHeap(dead_indices, sampled_idxs)
                      /\ opt_state' = ResetGroups(opt_state, sampled_idxs, NumFields)
                      /\ ret' = Len(dead_indices)
                      /\ loc' = [dead |-> dead_indices, sampled |-> sampled_idxs,
                                 n_new |-> 0]
    /\ UNCHANGED <<params, field_id, sh_degree, opt_init, opt_param, opt_lr,
                   iter, arg, mutex, rpc, view>>

-----------------------------------------------------------------------------
(* add_new_gs *)

RoundHalfEven(x, d) ==
    LET q == x \div d
        r == x % d
    IN  IF 2 * r < d THEN q
        ELSE IF 2 * r > d THEN q + 1
        ELSE IF q % 2 = 0 THEN q ELSE q + 1

\* bits to drop so that x fits the 24-bit significand of a float32
RECURSIVE ExcessBits(_)
ExcessBits(x) == IF x < Pow2(F32MantBits + 1) THEN 0 ELSE 1 + ExcessBits(x \div 2)

\* the product rounded to the nearest integer instead of truncated
GrowthTargetRounded(current_n) == (2 * F32Mant105 * current_n + Pow2(F32MantBits))
                                      \div Pow2(F32MantBits + 1)

\* the float32 product chopped to 24 bits instead of rounded to nearest
GrowthTargetChopped(current_n) == (F32Mant105 * current_n) \div Pow2(F32MantBits)

\* static_cast<int>(1.05f * current_n): the float32 product, rounded to nearest
\* (ties to even), truncated toward zero
GrowthTarget(current_n) ==
    LET exact == F32Mant105 * current_n
        sh == ExcessBits(exact)
        mant == RoundHalfEven(exact, Pow2(sh))
    IN  (mant * Pow2(sh)) \div Pow2(F32MantBits)

\* n_new computed without the min against max_cap
NNewUncapped(current_n, max_cap) == Max(0, GrowthTarget(current_n) - current_n)

\* n_new of add_new_gs
NNew(current_n, max_cap) ==
    LET n_target == Min(max_cap, GrowthTarget(current_n))
    IN  Max(0, n_target - current_n)

\* concatenation that leaves the higher-order colour coefficients as they were
ConcatenatedButShN(f, sampled_idxs) ==
    LET updated == UpdatedRows(f, sampled_idxs) \o <<>>
    IN  IF f = SHN THEN updated ELSE updated \o IndexSelect(updated, sampled_idxs)

\* concatenation that keeps only the sampled rows
ConcatenatedChildrenOnly(f, sampled_idxs) ==
    IndexSelect(UpdatedRows(f, sampled_idxs) \o <<>>, sampled_idxs) \o <<>>

\* concatenation whose new rows are the sampled rows as they were before the update
ConcatenatedFromOld(f, sampled_idxs) ==
    (UpdatedRows(f, sampled_idxs) \o <<>>) \o IndexSelect(Rows(f), sampled_idxs)

\* param_pairs[f].concatenated: the updated field followed by its sampled rows
Concatenated(f, sampled_idxs) ==
    LET updated == UpdatedRows(f, sampled_idxs) \o <<>>
    IN  updated \o IndexSelect(updated, sampled_idxs)

\* saved_states[g]: the extended state of group g, when it has one
HasState(g) == opt_param[g] \in DOMAIN opt_state
SavedState(g, n_new) == ExtendAdamState(opt_state[opt_param[g]], n_new)

\* identity of the concatenated tensor of field f
ConcatenatedId(f) == NewTensorId(field_id[f])

\* the state map without the erase loop
GrownStatesNotErased(n_new) ==
    LET added == {g \in Fields : HasState(g)}
    IN  [k \in (DOMAIN opt_state) \cup {ConcatenatedId(g) : g \in added} |->
            IF \E g \in added : ConcatenatedId(g) = k
            THEN SavedState(CHOOSE g \in added : ConcatenatedId(g) = k, n_new)
            ELSE opt_state[k]]

\* the state map after the erase loop and the re-insertion under the new keys
GrownStates(n_new) ==
    LET erased == Erase(opt_state, Range(opt_param))
        added == {g \in Fields : HasState(g)}
    IN  [k \in (DOMAIN erased) \cup {ConcatenatedId(g) : g \in added} |->
            IF \E g \in added : ConcatenatedId(g) = k
            THEN SavedState(CHOOSE g \in added : ConcatenatedId(g) = k, n_new)
            ELSE erased[k]]

\* the heap once model and optimizer hold the concatenated tensors: the replaced
\* tensors have no owner left and are released
GrownHeap(sampled_idxs) ==
    [k \in {ConcatenatedId(f) : f \in Fields} |->
        [rows |-> Concatenated(CHOOSE f \in Fields : ConcatenatedId(f) = k, sampled_idxs),
         grad |-> NoGrad]]

\* add_new_gs without the return on n_new == 0
AddNewGsNoEarlyReturn ==
    /\ pc = "add_new_gs"
    /\ pc' = "inject_noise"
    /\ IF ~opt_init
       THEN /\ ret' = 0
            /\ loc' = NoLocals
            /\ UNCHANGED <<heap, field_id, opt_param, opt_state>>
       ELSE LET n_new == NNew(Size, params.max_cap)
            IN  \E sampled_idxs \in MultinomialSample(GetOpacity \o <<>>, n_new) :
                  /\ heap' = GrownHeap(sampled_idxs)
                  /\ opt_state' = GrownStates(n_new)
                  /\ opt_param' = [g \in Fields |-> ConcatenatedId(g)]
                  /\ field_id' = [f \in Fields |-> ConcatenatedId(f)]
                  /\ ret' = n_new
                  /\ loc' = [dead |-> <<>>, sampled |-> sampled_idxs, n_new |-> n_new]
    /\ UNCHANGED <<params, sh_degree, opt_init, opt_lr, iter, arg, mutex, rpc, view>>

AddNewGs ==
    /\ pc = "add_new_gs"
    /\ pc' = "inject_noise"
    /\ IF ~opt_init \/ NNew(Size, params.max_cap) = 0
       THEN /\ ret' = 0
            /\ loc' = NoLocals
            /\ UNCHANGED <<heap, field_id, opt_param, opt_state>>
       ELSE LET n_new == NNew(Size, params.max_cap)
            IN  \E sampled_idxs \in MultinomialSample(GetOpacity \o <<>>, n_new) :
                  /\ heap' = GrownHeap(sampled_idxs)
                  /\ opt_state' = GrownStates(n_new)
                  /\ opt_param' = [g \in Fields |-> ConcatenatedId(g)]
                  /\ field_id' = [f \in Fields |-> ConcatenatedId(f)]
                  /\ ret' = n_new
                  /\ loc' = [dead |-> <<>>, sampled |-> sampled_idxs, n_new |-> n_new]
    /\ UNCHANGED <<params, sh_degree, opt_init, opt_lr, iter, arg, mutex, rpc, view>>

-----------------------------------------------------------------------------
(* inject_noise *)

\* op_sigmoid: vanishes for a saturated opacity, positive otherwise
NoiseWeight(o) == IF o >= OpOne THEN 0 ELSE 1

\* means after add_(noise): a row whose noise weight is positive moves to another tag
NoisyMeans ==
    [i \in 1..Len(Rows(MEANS)) |->
        (Rows(MEANS)[i] + NoiseWeight(GetOpacity[i])) % TagMod]

\* inject_noise that perturbs the scales as well
InjectNoiseOnScales ==
    /\ pc = "inject_noise"
    /\ pc' = "step"
    /\ ret' = 0
    /\ loc' = NoLocals
    /\ heap' = [heap EXCEPT
                  ![field_id[MEANS]].rows = NoisyMeans,
                  ![field_id[SCALING]].rows =
                      [i \in 1..Len(@) |-> @[i] + NoiseWeight(GetOpacity[i])]]
    /\ UNCHANGED <<params, field_id, sh_degree, opt_init, opt_param, opt_lr, opt_state,
                   iter, arg, mutex, rpc, view>>

\* MCMC::inject_noise; post_backward returns and the loop calls step
InjectNoise ==
    /\ pc = "inject_noise"
    /\ pc' = "step"
    /\ ret' = 0
    /\ loc' = NoLocals
    /\ heap' = [heap EXCEPT ![field_id[MEANS]].rows = NoisyMeans]
    /\ UNCHANGED <<params, field_id, sh_degree, opt_init, opt_param, opt_lr, opt_state,
                   iter, arg, mutex, rpc, view>>

-----------------------------------------------------------------------------
(* post_backward *)

\* SplatData::increment_sh_degree
IncrementShDegree(d) == IF d < MaxShDegree THEN d + 1 ELSE d

\* post_backward that refines on every call
PostBackwardAlwaysRefines ==
    /\ pc = "post_backward"
    /\ sh_degree' = IF iter % ShEvery = 0 THEN IncrementShDegree(sh_degree) ELSE sh_degree
    /\ pc' = "relocate_gs"
    /\ UNCHANGED <<params, heap, field_id, opt_init, opt_param, opt_lr, opt_state,
                   iter, ret, arg, loc, mutex, rpc, view>>

\* post_backward that raises the degree only on a refining iteration
PostBackwardShWhenRefining ==
    /\ pc = "post_backward"
    /\ sh_degree' = IF iter % ShEvery = 0 /\ IsRefining(iter)
                     THEN IncrementShDegree(sh_degree) ELSE sh_degree
    /\ pc' = IF IsRefining(iter) THEN "relocate_gs" ELSE "inject_noise"
    /\ UNCHANGED <<params, heap, field_id, opt_init, opt_param, opt_lr, opt_state,
                   iter, ret, arg, loc, mutex, rpc, view>>

\* MCMC::post_backward up to its first call
PostBackward ==
    /\ pc = "post_backward"
    /\ sh_degree' = IF iter % ShEvery = 0 THEN IncrementShDegree(sh_degree) ELSE sh_degree
    /\ pc' = IF IsRefining(iter) THEN "relocate_gs" ELSE "inject_noise"
    /\ UNCHANGED <<params, heap, field_id, opt_init, opt_param, opt_lr, opt_state,
                   iter, ret, arg, loc, mutex, rpc, view>>

-----------------------------------------------------------------------------
(* The strategy driven by the training loop *)

Next ==
    \/ Initialize(ParamSpace)
    \/ Backward
    \/ PostBackward
    \/ RelocateGs
    \/ AddNewGs
    \/ InjectNoise
    \/ Step

Spec == Init /\ [][Next]_vars

-----------------------------------------------------------------------------
(* The training loop, and add_new_gs called on a strategy that was constructed
   but not yet initialized *)

\* add_new_gs is called before initialize
CallAddNewGs ==
    /\ pc = "initialize"
    /\ pc' = "add_new_gs"
    /\ UNCHANGED <<modelVars, iter, ret, arg, loc, mutex, rpc, view>>

\* that call has returned
DirectReturn ==
    /\ pc = "inject_noise"
    /\ ~opt_init
    /\ pc' = "initialize"
    /\ UNCHANGED <<modelVars, iter, ret, arg, loc, mutex, rpc, view>>

NextDirect ==
    \/ CallAddNewGs
    \/ DirectReturn
    \/ Initialize(ParamSpace)
    \/ Backward
    \/ PostBackward
    \/ RelocateGs
    \/ AddNewGs
    \/ (opt_init /\ InjectNoise)
    \/ Step

SpecDirect == Init /\ [][NextDirect]_vars

-----------------------------------------------------------------------------
(* The training loop under the configurations above and under one that refines on
   every iteration: there the first refinement runs before the optimizer has taken
   a step, on groups that have no Adam state yet *)

EarlyParamSpace ==
    [min_opacity : {RunMinOpacity},
     max_cap : {InitN + CapRoom},
     start_refine : {RunStartRefine},
     stop_refine : {EarlyIterations + 1},
     refine_every : {1},
     iterations : {EarlyIterations}]

NextEarly ==
    \/ Initialize(ParamSpace \cup EarlyParamSpace)
    \/ Backward
    \/ PostBackward
    \/ RelocateGs
    \/ AddNewGs
    \/ InjectNoise
    \/ Step

SpecEarly == Init /\ [][NextEarly]_vars

-----------------------------------------------------------------------------
(* A long run, followed at the iterations around the multiples of 1000 only: the
   last two iterations before the first multiple, then each multiple up to
   ShRounds of them.  The refinement window closes after the first multiple, so a
   multiple of 1000 is met both inside and outside the window *)

ShIters == {ShEvery - 2, ShEvery - 1} \cup {r * ShEvery : r \in 1..ShRounds}

ShParamSpace ==
    [min_opacity : {RunMinOpacity},
     max_cap : {InitN + CapRoom},
     start_refine : {RunStartRefine},
     stop_refine : {ShEvery + 1},
     refine_every : {RunRefineEvery},
     iterations : {ShRounds * ShEvery}]

\* the loop has come to the next iteration of ShIters
SkipAhead ==
    /\ pc = "backward"
    /\ iter \notin ShIters
    /\ \E it \in ShIters :
          /\ it > iter
          /\ \A other \in ShIters : other > iter => it <= other
          /\ iter' = it
    /\ UNCHANGED <<modelVars, pc, ret, arg, loc, mutex, rpc, view>>

NextSh ==
    \/ Initialize(ShParamSpace)
    \/ SkipAhead
    \/ (iter \in ShIters /\ Backward)
    \/ PostBackward
    \/ RelocateGs
    \/ AddNewGs
    \/ InjectNoise
    \/ Step

SpecSh == Init /\ [][NextSh]_vars

-----------------------------------------------------------------------------
(* The two integer computations on their own: the growth size of add_new_gs and
   is_refining, called between iterations on inputs beyond those a short run meets *)

CalcParamSpace ==
    [min_opacity : {RunMinOpacity},
     max_cap : {InitN + CapRoom},
     start_refine : {0, MaxCalcCfg},
     stop_refine : {MaxCalcIter - MaxCalcCfg, MaxCalcIter},
     refine_every : 1..MaxCalcCfg,
     iterations : {RunIterations}]

\* add_new_gs lines 219-221 on a model of current_n rows under max_cap
NNewCall ==
    /\ pc = "backward"
    /\ \E current_n \in 0..MaxCalcN :
         \E max_cap \in Max(0, current_n - 1)
                          ..(current_n + current_n \div 20 + CalcCapSlack) :
            /\ arg' = <<current_n, max_cap>>
            /\ ret' = NNew(current_n, max_cap)
    /\ pc' = "n_new"
    /\ UNCHANGED <<modelVars, iter, loc, mutex, rpc, view>>

\* a call of is_refining(it)
IsRefiningCall ==
    /\ pc = "backward"
    /\ \E it \in 0..MaxCalcIter :
            /\ arg' = it
            /\ ret' = IsRefining(it)
    /\ pc' = "is_refining"
    /\ UNCHANGED <<modelVars, iter, loc, mutex, rpc, view>>

\* the caller takes the result and goes on
CallReturn ==
    /\ pc \in {"n_new", "is_refining"}
    /\ pc' = "backward"
    /\ ret' = 0
    /\ arg' = <<>>
    /\ UNCHANGED <<modelVars, iter, loc, mutex, rpc, view>>

NextCalc ==
    \/ Initialize(CalcParamSpace)
    \/ NNewCall
    \/ IsRefiningCall
    \/ CallReturn

SpecCalc == Init /\ [][NextCalc]_vars

-----------------------------------------------------------------------------
(* Repeated refinement seen through the row count: add_new_gs leaves a model of
   current_n + n_new rows, on which the next refinement iteration calls it
   again.  The training loop of the specification keeps calling while the last
   call added rows. *)

\* add_new_gs lines 219-221 in the next refinement iteration, on the grown model
NNewAgain ==
    /\ pc = "n_new"
    /\ ret > 0
    /\ arg' = <<arg[1] + ret, arg[2]>>
    /\ ret' = NNew(arg[1] + ret, arg[2])
    /\ iter' = iter + 1
    /\ UNCHANGED <<modelVars, pc, loc, mutex, rpc, view>>

NextGrowth ==
    \/ Initialize(ParamSpace)
    \/ NNewCall
    \/ NNewAgain

\* the step the loop owes: a further refinement iteration after one that added rows
NextRefinement == pc = "n_new" /\ ret > 0 /\ iter' = iter + 1

SpecGrowth == Init /\ [][NextGrowth]_vars /\ WF_iter(NextRefinement)

-----------------------------------------------------------------------------
(* The scheduler on its own: ExponentialLR::step called repeatedly after initialize.
   gamma = 0.01^(1/iterations) is fixed by initialize, so the learning rate of
   group g is its initial value times 0.01^(opt_lr[g] / params.iterations). *)

SchedParamSpace ==
    [min_opacity : {RunMinOpacity},
     max_cap : {InitN + CapRoom},
     start_refine : {RunStartRefine},
     stop_refine : {RunIterations + 1},
     refine_every : {RunRefineEvery},
     iterations : 1..MaxSchedIters]

\* exponent of 0.01 in lr / initial_lr of group g, as a fraction
LrDecay(g) == [num |-> opt_lr[g], den |-> params.iterations]

\* one call of _scheduler->step(); iter counts the calls, starting at 1
SchedulerStep ==
    /\ pc = "backward"
    /\ iter <= MaxSchedSteps
    /\ opt_lr' = ExponentialLRStep(opt_lr)
    /\ iter' = iter + 1
    /\ UNCHANGED <<params, heap, field_id, sh_degree, opt_init, opt_param, opt_state,
                   pc, ret, arg, loc, mutex, rpc, view>>

NextSched ==
    \/ Initialize(SchedParamSpace)
    \/ SchedulerStep

SpecSched == Init /\ [][NextSched]_vars

-----------------------------------------------------------------------------
(* The weighted sampler on its own: both paths of multinomial_sample applied to
   short weight vectors *)

\* the weight vectors and the draws tried
SampleWeights == UNION {[1..m -> 0..MaxWeight] : m \in 1..MaxSampleLen}
SampleDraws == UNION {[1..n -> 0..UGrid] : n \in 0..MaxDraws}

\* multinomial_sample taking its manual path
ManualSampleCall ==
    /\ pc = "initialize"
    /\ \E w \in SampleWeights, us \in SampleDraws, short \in BOOLEAN :
          /\ arg' = [weights |-> w, n |-> Len(us), us |-> us, short |-> short]
          /\ ret' = ManualMultinomialSample(w, us, short)
    /\ pc' = "manual_sample"
    /\ UNCHANGED <<modelVars, iter, loc, mutex, rpc, view>>

\* multinomial_sample taking the library path
LibrarySampleCall ==
    /\ pc = "initialize"
    /\ \E w \in SampleWeights, n \in 0..MaxDraws :
          /\ arg' = [weights |-> w, n |-> n]
          /\ ret' \in MultinomialSample(w, n)
    /\ pc' = "library_sample"
    /\ UNCHANGED <<modelVars, iter, loc, mutex, rpc, view>>

\* the caller takes the indices
SampleReturn ==
    /\ pc \in {"manual_sample", "library_sample"}
    /\ pc' = "initialize"
    /\ ret' = 0
    /\ arg' = <<>>
    /\ UNCHANGED <<modelVars, iter, loc, mutex, rpc, view>>

NextSample ==
    \/ ManualSampleCall
    \/ LibrarySampleCall
    \/ SampleReturn

SpecSample == Init /\ [][NextSample]_vars

-----------------------------------------------------------------------------
(* float32 arithmetic of init_binomial_coefficients.  A positive float is
   [m, e] with 2^23 <= m < 2^24 and value m * 2^e; results are rounded to
   nearest, ties to even, as the hardware does. *)

F32Zero == [m |-> 0, e |-> 0]

\* a positive value m * 2^e with m < 2^24, normalized
RECURSIVE F32Normalize(_, _)
F32Normalize(m, e) ==
    IF m >= Pow2(F32MantBits) THEN [m |-> m, e |-> e]
    ELSE F32Normalize(2 * m, e - 1)

\* static_cast<float>(x) for an integer 0 <= x < 2^24
F32FromInt(x) == IF x = 0 THEN F32Zero ELSE F32Normalize(x, 0)

\* a rounded significand that may have reached 2^24
F32Carry(m, e) ==
    IF m = Pow2(F32MantBits + 1) THEN [m |-> Pow2(F32MantBits), e |-> e + 1]
    ELSE [m |-> m, e |-> e]

\* static_cast<float>(a) / static_cast<float>(b) for integers 1 <= a, b <= 50:
\* the quotient of a * 2^s by b with the s that leaves 24 significant bits
RECURSIVE F32DivShift(_, _, _)
F32DivShift(scaled, least, sh) ==
    IF scaled >= least THEN sh ELSE F32DivShift(2 * scaled, least, sh + 1)
F32Div(a, b) ==
    LET sh == F32DivShift(a, b * Pow2(F32MantBits), 0)
    IN  F32Carry(RoundHalfEven(a * Pow2(sh), b), 0 - sh)

\* x * y for positive floats: the 48-bit product of the significands, built from
\* 12-bit halves, rounded to 24 bits
F32Mul(x, y) ==
    LET half == Pow2(12)
        x1 == x.m \div half
        x0 == x.m % half
        y1 == y.m \div half
        y0 == y.m % half
        mid == x1 * y0 + x0 * y1
        low == (mid % half) * half + x0 * y0
        hi == x1 * y1 + mid \div half + low \div Pow2(24)
        lo == low % Pow2(24)
    IN  IF hi >= Pow2(F32MantBits)
        THEN LET up == lo > Pow2(23) \/ (lo = Pow2(23) /\ hi % 2 = 1)
             IN  F32Carry(IF up THEN hi + 1 ELSE hi, x.e + y.e + 24)
        ELSE LET m == 2 * hi + lo \div Pow2(23)
                 rest == lo % Pow2(23)
                 up == rest > Pow2(22) \/ (rest = Pow2(22) /\ m % 2 = 1)
             IN  F32Carry(IF up THEN m + 1 ELSE m, x.e + y.e + 23)

\* the inner loop of lines 116-119 from step i on: binom *= (n - i) / (i + 1)
RECURSIVE BinomLoop(_, _, _, _)
BinomLoop(n, k, i, binom) ==
    IF i >= k THEN binom
    ELSE LET next == F32Mul(binom, F32Div(n - i, i + 1))
         \* a product that is 0 stays 0 under every further factor
         IN  IF next.m > 0 THEN BinomLoop(n, k, i + 1, next) ELSE F32Zero

\* init_binomial_coefficients, entry [n][k]: the product for k <= n, and the 0 of
\* torch::zeros above the diagonal
InitBinomialCoefficients(n, k) ==
    IF k <= n THEN BinomLoop(n, k, 0, F32FromInt(1)) ELSE F32Zero

-----------------------------------------------------------------------------
(* The binomial table on its own: the entries init_binomial_coefficients writes,
   read one at a time *)

\* a read of _binoms[n][k] as init_binomial_coefficients(BINOMIAL_MAX_N) filled it
BinomsRead ==
    /\ pc = "initialize"
    /\ \E n \in 0..(BinomialMaxN - 1), k \in 0..(BinomialMaxN - 1) :
          /\ arg' = <<n, k>>
          /\ ret' = InitBinomialCoefficients(n, k)
    /\ pc' = "init_binomial_coefficients"
    /\ UNCHANGED <<modelVars, iter, loc, mutex, rpc, view>>

\* the reader takes the entry
BinomsReturn ==
    /\ pc = "init_binomial_coefficients"
    /\ pc' = "initialize"
    /\ ret' = 0
    /\ arg' = <<>>
    /\ UNCHANGED <<modelVars, iter, loc, mutex, rpc, view>>

NextBinoms ==
    \/ BinomsRead
    \/ BinomsReturn

SpecBinoms == Init /\ [][NextBinoms]_vars

-----------------------------------------------------------------------------
(* The two helpers of the relocation on their own: calculate_relocation_ratios on
   samples that repeat a row up to MaxRepeat times, and update_opacity_raw on
   every opacity of the grid under every min_opacity of the grid *)

Repeat(v, n) == [j \in 1..n |-> v]

\* samples: row 1 taken c times, then row 2 taken d times
RatioSamples == {Repeat(1, c) \o Repeat(2, d) : c \in 0..MaxRepeat, d \in 0..MaxOther}

\* calculate_relocation_ratios(sampled_idxs, opacities, _binoms.size(0))
RatiosCall ==
    /\ pc = "initialize"
    /\ \E sampled_idxs \in RatioSamples :
          /\ arg' = sampled_idxs
          /\ ret' = CalculateRelocationRatios(sampled_idxs, BinomialMaxN)
    /\ pc' = "calculate_relocation_ratios"
    /\ UNCHANGED <<modelVars, iter, loc, mutex, rpc, view>>

\* relocation outputs handed to update_opacity_raw: one or two opacities of the grid
RelocationOutputs == UNION {[1..n -> 0..OpOne] : n \in 1..2}

\* update_opacity_raw(opacity_raw, indices, new_opacities, min_opacity) on the
\* first rows of an opacity_raw tensor of two rows
UpdateOpacityRawCall ==
    /\ pc = "initialize"
    /\ \E new_opacities \in RelocationOutputs, min_opacity \in 0..OpOne :
          /\ arg' = [new_opacities |-> new_opacities, min_opacity |-> min_opacity]
          /\ ret' = UpdateOpacityRaw(<<Logit(OpOne - 1), Logit(OpOne - 1)>>,
                                     [j \in 1..Len(new_opacities) |-> j],
                                     new_opacities, min_opacity) \o <<>>
    /\ pc' = "update_opacity_raw"
    /\ UNCHANGED <<modelVars, iter, loc, mutex, rpc, view>>

HelperReturn ==
    /\ pc \in {"calculate_relocation_ratios", "update_opacity_raw"}
    /\ pc' = "initialize"
    /\ ret' = 0
    /\ arg' = <<>>
    /\ UNCHANGED <<modelVars, iter, loc, mutex, rpc, view>>

NextHelpers ==
    \/ RatiosCall
    \/ UpdateOpacityRawCall
    \/ HelperReturn

SpecHelpers == Init /\ [][NextHelpers]_vars

-----------------------------------------------------------------------------
(* The training thread and the viewer's render thread around the splat mutex.
   relocate_gs and add_new_gs are followed write by write; pc names the next
   statement of the training thread, rpc the next statement of the renderer. *)

ConcParamSpace ==
    [min_opacity : {RunMinOpacity},
     max_cap : {InitN + CapRoom},
     start_refine : {RunStartRefine},
     stop_refine : {RunIterations + 1},
     refine_every : {RunRefineEvery},
     iterations : {RunIterations}]

\* positions of copy_param(field) in relocate_gs and of the last loop of add_new_gs
CopyPc ==
    <<"relocate_gs.copy_means", "relocate_gs.copy_sh0", "relocate_gs.copy_shN",
      "relocate_gs.copy_scaling_raw", "relocate_gs.copy_rotation_raw",
      "relocate_gs.copy_opacity_raw">>
CommitPc ==
    <<"add_new_gs.assign_means", "add_new_gs.assign_sh0", "add_new_gs.assign_shN",
      "add_new_gs.assign_scaling_raw", "add_new_gs.assign_rotation_raw",
      "add_new_gs.assign_opacity_raw">>

\* positions at which some writes of relocate_gs or add_new_gs are done and others not
MidUpdatePcs ==
    {"relocate_gs.scaling_raw", "add_new_gs.scaling_raw", "relocate_gs.reset",
     "add_new_gs.save_states"} \cup Range(CopyPc) \cup Range(CommitPc)

\* the training loop takes the splat mutex for post_backward and step
TrainerLock ==
    /\ pc = "post_backward"
    /\ mutex = "free"
    /\ mutex' = "trainer"
    /\ UNCHANGED <<modelVars, iter, pc, ret, arg, loc, rpc, view>>

TrainerUnlock ==
    /\ pc \in {"backward", "done"}
    /\ mutex = "trainer"
    /\ mutex' = "free"
    /\ UNCHANGED <<modelVars, iter, pc, ret, arg, loc, rpc, view>>

\* the forward and backward pass run outside the critical section
UnlockedBackward == mutex # "trainer" /\ Backward

\* post_backward up to its first call, inject_noise and step, inside it
LockedPostBackward == mutex = "trainer" /\ PostBackward
LockedInjectNoise == mutex = "trainer" /\ InjectNoise
LockedStep == mutex = "trainer" /\ Step

\* relocate_gs lines 158-174: the early returns and the sample
RelocateSample ==
    /\ pc = "relocate_gs"
    /\ LET dead_indices == DeadIndices
           alive_indices == AliveIndices
       IN  IF Len(dead_indices) = 0 \/ Len(alive_indices) = 0
           THEN /\ ret' = 0
                /\ loc' = NoLocals
                /\ pc' = "add_new_gs"
           ELSE \E local \in MultinomialSample(IndexSelect(GetOpacity, alive_indices) \o <<>>,
                                               Len(dead_indices)) :
                  /\ loc' = [dead |-> dead_indices,
                             sampled |-> SampledFromAlive(alive_indices, local),
                             n_new |-> 0]
                  /\ pc' = "relocate_gs.opacity_raw"
                  /\ UNCHANGED ret
    /\ UNCHANGED <<modelVars, iter, arg, mutex, rpc, view>>

\* add_new_gs lines 214-227: the early returns and the sample
GrowSample ==
    /\ pc = "add_new_gs"
    /\ IF ~opt_init \/ NNew(Size, params.max_cap) = 0
       THEN /\ ret' = 0
            /\ loc' = NoLocals
            /\ pc' = "inject_noise"
       ELSE LET n_new == NNew(Size, params.max_cap)
            IN  \E sampled_idxs \in MultinomialSample(GetOpacity \o <<>>, n_new) :
                  /\ loc' = [dead |-> <<>>, sampled |-> sampled_idxs, n_new |-> n_new]
                  /\ pc' = "add_new_gs.opacity_raw"
                  /\ UNCHANGED ret
    /\ UNCHANGED <<modelVars, iter, arg, mutex, rpc, view>>

\* update_opacity_raw on the sampled rows (relocate_gs line 188, add_new_gs line 241)
UpdateParentsOpacity ==
    /\ pc \in {"relocate_gs.opacity_raw", "add_new_gs.opacity_raw"}
    /\ heap' = [heap EXCEPT ![field_id[OPACITY]].rows =
                    UpdatedRows(OPACITY, loc.sampled) \o <<>>]
    /\ pc' = IF pc = "relocate_gs.opacity_raw" THEN "relocate_gs.scaling_raw"
             ELSE "add_new_gs.scaling_raw"
    /\ UNCHANGED <<params, field_id, sh_degree, opt_init, opt_param, opt_lr, opt_state,
                   iter, ret, arg, loc, mutex, rpc, view>>

\* scaling_raw().index_put_ on the sampled rows (relocate_gs line 189, add_new_gs line 242)
UpdateParentsScaling ==
    /\ pc \in {"relocate_gs.scaling_raw", "add_new_gs.scaling_raw"}
    /\ heap' = [heap EXCEPT ![field_id[SCALING]].rows =
                    UpdatedRows(SCALING, loc.sampled) \o <<>>]
    /\ pc' = IF pc = "relocate_gs.scaling_raw" THEN CopyPc[MEANS]
             ELSE "add_new_gs.save_states"
    /\ UNCHANGED <<params, field_id, sh_degree, opt_init, opt_param, opt_lr, opt_state,
                   iter, ret, arg, loc, mutex, rpc, view>>

\* copy_param(field): one index_put_ of the sampled rows onto the dead rows
CopyParam ==
    \E f \in Fields :
        /\ pc = CopyPc[f]
        /\ heap' = [heap EXCEPT ![field_id[f]].rows =
                        IndexPut(Rows(f), loc.dead, IndexSelect(Rows(f), loc.sampled))]
        /\ pc' = IF f < NumFields THEN CopyPc[f + 1] ELSE "relocate_gs.reset"
        /\ UNCHANGED <<params, field_id, sh_degree, opt_init, opt_param, opt_lr,
                       opt_state, iter, ret, arg, loc, mutex, rpc, view>>

\* relocate_gs lines 204-208: the reset loop and the return
RelocateReset ==
    /\ pc = "relocate_gs.reset"
    /\ opt_state' = ResetGroups(opt_state, loc.sampled, NumFields)
    /\ ret' = Len(loc.dead)
    /\ pc' = "add_new_gs"
    /\ UNCHANGED <<params, heap, field_id, sh_degree, opt_init, opt_param, opt_lr,
                   iter, arg, loc, mutex, rpc, view>>

\* add_new_gs lines 257-285: saved_states filled, the old keys erased
GrowSaveStates ==
    /\ pc = "add_new_gs.save_states"
    /\ loc' = [dead |-> <<>>, sampled |-> loc.sampled, n_new |-> loc.n_new,
               saved |-> [g \in {h \in Fields : HasState(h)} |-> SavedState(g, loc.n_new)]]
    /\ opt_state' = Erase(opt_state, Range(opt_param))
    /\ pc' = CommitPc[MEANS]
    /\ UNCHANGED <<params, heap, field_id, sh_degree, opt_init, opt_param, opt_lr,
                   iter, ret, arg, mutex, rpc, view>>

\* add_new_gs lines 288-297, one turn of the loop: optimizer and model take the
\* concatenated tensor of one field, the saved state goes under the new key
GrowAssign ==
    \E f \in Fields :
        LET new_id == ConcatenatedId(f)
            concatenated == Rows(f) \o IndexSelect(Rows(f), loc.sampled)
        IN  /\ pc = CommitPc[f]
            /\ heap' = [k \in (DOMAIN heap \ {field_id[f]}) \cup {new_id} |->
                            IF k = new_id THEN [rows |-> concatenated, grad |-> NoGrad]
                            ELSE heap[k]]
            /\ opt_param' = [opt_param EXCEPT ![f] = new_id]
            /\ field_id' = [field_id EXCEPT ![f] = new_id]
            /\ opt_state' = IF f \in DOMAIN loc.saved
                            THEN [k \in DOMAIN opt_state \cup {new_id} |->
                                    IF k = new_id THEN loc.saved[f] ELSE opt_state[k]]
                            ELSE opt_state
            /\ IF f < NumFields
               THEN pc' = CommitPc[f + 1] /\ UNCHANGED ret
               ELSE pc' = "inject_noise" /\ ret' = loc.n_new
            /\ UNCHANGED <<params, sh_degree, opt_init, opt_lr, iter, arg, loc,
                           mutex, rpc, view>>

\* the lock_guard without the wait for the mutex
RenderSplatsEnter ==
    /\ rpc = "idle"
    /\ rpc' = "rasterize"
    /\ UNCHANGED <<modelVars, iter, pc, ret, arg, loc, mutex, view>>

\* SceneRenderer::renderSplats line 188: std::lock_guard lock(splat_mutex)
RenderSplatsLock ==
    /\ rpc = "idle"
    /\ mutex = "free"
    /\ mutex' = "renderer"
    /\ rpc' = "rasterize"
    /\ UNCHANGED <<modelVars, iter, pc, ret, arg, loc, view>>

\* lines 189-196: gs::rasterize reads the six fields of get_model()
Rasterize ==
    /\ rpc = "rasterize"
    /\ view' = [rows |-> [f \in Fields |-> Rows(f)], at |-> pc]
    /\ rpc' = "unlock"
    /\ UNCHANGED <<modelVars, iter, pc, ret, arg, loc, mutex>>

\* line 197: the guard goes out of scope
RenderSplatsUnlock ==
    /\ rpc = "unlock"
    /\ mutex' = IF mutex = "renderer" THEN "free" ELSE mutex
    /\ rpc' = "idle"
    /\ UNCHANGED <<modelVars, iter, pc, ret, arg, loc, view>>

NextConc ==
    \/ Initialize(ConcParamSpace)
    \/ UnlockedBackward
    \/ TrainerLock
    \/ LockedPostBackward
    \/ RelocateSample
    \/ UpdateParentsOpacity
    \/ UpdateParentsScaling
    \/ CopyParam
    \/ RelocateReset
    \/ GrowSample
    \/ GrowSaveStates
    \/ GrowAssign
    \/ LockedInjectNoise
    \/ LockedStep
    \/ TrainerUnlock
    \/ RenderSplatsLock
    \/ Rasterize
    \/ RenderSplatsUnlock

SpecConc == Init /\ [][NextConc]_vars

-----------------------------------------------------------------------------
(* Properties *)

\* C1: the six model fields always have the same leading dimension N
FieldAlignment == \A f \in Fields : Len(Rows(f)) = Size

\* a grown model: all fields hold more rows than at construction
FieldAlignmentWitness ==
    /\ Size > InitN
    /\ \A f \in Fields : Len(Rows(f)) = Size

\* C2: every moment buffer of a group that has Adam state is as long as the
\* parameter tensor the group tracks
MomentLen(st, n) ==
    /\ Len(st.exp_avg) = n
    /\ Len(st.exp_avg_sq) = n
    /\ (st.max_exp_avg_sq.defined => Len(st.max_exp_avg_sq.rows) = n)
MomentAlignment ==
    \A g \in Fields :
        opt_param[g] \in DOMAIN opt_state =>
            MomentLen(opt_state[opt_param[g]], Len(heap[opt_param[g]].rows))

\* a grown model whose six groups carry Adam state with a nonzero moment
MomentAlignmentWitness ==
    /\ Size > InitN
    /\ \A g \in Fields :
          /\ opt_param[g] \in DOMAIN opt_state
          /\ \E i \in 1..Size : opt_state[opt_param[g]].exp_avg[i] > 0

\* C3: N never decreases; relocate_gs, inject_noise and step leave it unchanged and
\* add_new_gs increases it by exactly the n_new it returns
RowCountSteps ==
    /\ Size' >= Size
    /\ (pc = "add_new_gs" => Size' = Size + ret')
    /\ (pc \in {"relocate_gs", "inject_noise", "step"} => Size' = Size)
RowCountMonotone == [][RowCountSteps]_vars

\* add_new_gs has just returned a positive n_new
RowCountWitness ==
    /\ pc = "inject_noise"
    /\ ret > 0
    /\ Size = InitN + ret

\* C5: max_cap is a ceiling: a population within max_cap stays within it, and a
\* population above max_cap never grows
CapSteps ==
    opt_init =>
        /\ (Size <= params.max_cap => Size' <= params.max_cap)
        /\ (Size > params.max_cap => Size' <= Size)
        /\ params' = params
CapCeiling == [][CapSteps]_vars

\* growth has filled the model up to max_cap
CapCeilingWitness ==
    /\ opt_init
    /\ Size = params.max_cap
    /\ Size > InitN

\* C6: when add_new_gs adds rows, each group that has Adam state keeps its moment
\* buffers in rows 0..N-1, gets n_new zero rows appended, and keeps its step counter
ExtendedBy(new, old, n) ==
    /\ new.step = old.step
    /\ new.exp_avg = old.exp_avg \o [i \in 1..n |-> 0]
    /\ new.exp_avg_sq = old.exp_avg_sq \o [i \in 1..n |-> 0]
    /\ new.max_exp_avg_sq.defined = old.max_exp_avg_sq.defined
    /\ (old.max_exp_avg_sq.defined =>
            new.max_exp_avg_sq.rows = old.max_exp_avg_sq.rows \o [i \in 1..n |-> 0])
GrowthSteps ==
    (pc = "add_new_gs" /\ ret' > 0) =>
        \A g \in Fields :
            opt_param[g] \in DOMAIN opt_state =>
                /\ opt_param'[g] \in DOMAIN opt_state'
                /\ ExtendedBy(opt_state'[opt_param'[g]], opt_state[opt_param[g]], ret')
GrowthExtendsMoments == [][GrowthSteps]_vars

\* add_new_gs has just grown a model whose groups had stepped: old moments in
\* front, zero rows behind
GrowthExtendsMomentsWitness ==
    /\ pc = "inject_noise"
    /\ ret > 0
    /\ \A g \in Fields :
          /\ opt_param[g] \in DOMAIN opt_state
          /\ opt_state[opt_param[g]].step > 0
          /\ \E i \in 1..(Size - ret) : opt_state[opt_param[g]].exp_avg[i] > 0
          /\ \A i \in (Size - ret + 1)..Size : opt_state[opt_param[g]].exp_avg[i] = 0

-----------------------------------------------------------------------------
\* C7 (as stated): after relocate_gs has run on a model with at least one dead
\* and at least one alive row, every row has opacity strictly above min_opacity.
NoDeadAfterRelocation ==
    (pc = "add_new_gs" /\ ret > 0) =>
        \A i \in 1..Size : GetOpacity[i] > params.min_opacity

\* C7 (amended): after relocate_gs has run on a model with at least one dead and
\* at least one alive row, every row's opacity_raw is at least logit(min_opacity),
\* and a row sitting exactly on min_opacity is a sampled row or a copy of one.
RelocationFloorsOpacity ==
    (pc = "add_new_gs" /\ ret > 0) =>
        \A i \in 1..Size :
            /\ Rows(OPACITY)[i] >= Logit(params.min_opacity)
            /\ GetOpacity[i] = params.min_opacity =>
                   i \in Range(loc.dead) \cup Range(loc.sampled)

RelocationFloorsOpacityWitness ==
    /\ pc = "add_new_gs"
    /\ ret > 0
    /\ \E i \in Range(loc.sampled) : GetOpacity[i] = params.min_opacity
    /\ \E i \in Range(loc.sampled) : GetOpacity[i] > params.min_opacity

-----------------------------------------------------------------------------
\* what relocate_gs promises about one dead row d and the row s sampled for it
CopiedFrom(d, s) ==
    /\ GetOpacity[s] > params.min_opacity
    /\ \A f \in Fields : Rows(f)'[d] = Rows(f)'[s]
    /\ \A f \in Fields \ {OPACITY, SCALING} : Rows(f)'[s] = Rows(f)[s]

\* C8 (as stated): after relocate_gs every row that was dead equals, in all six
\* fields, a row that was alive, taken with its post-relocation opacity_raw and
\* scale_raw, and the return value is the number of rows that were dead.
RelocationCopiesAlways ==
    [][pc = "relocate_gs" =>
          /\ ret' = Len(DeadIndices)
          /\ \A d \in Range(DeadIndices) : \E s \in 1..Size : CopiedFrom(d, s)]_vars

\* C8 (amended): when at least one row is alive, relocate_gs returns the number of
\* dead rows, samples only alive rows, and leaves each dead row equal in all six
\* fields to the row sampled for it (post-relocation opacity_raw and scale_raw,
\* the other four fields as before); when no row is alive it returns 0 and
\* leaves the model and the optimizer as they were.
RelocationSteps ==
    pc = "relocate_gs" =>
        IF Len(AliveIndices) = 0
        THEN ret' = 0 /\ UNCHANGED modelVars
        ELSE /\ ret' = Len(DeadIndices)
             /\ Len(DeadIndices) > 0 =>
                   /\ loc'.dead = DeadIndices
                   /\ Len(loc'.sampled) = Len(DeadIndices)
                   /\ \A j \in 1..Len(DeadIndices) :
                          CopiedFrom(DeadIndices[j], loc'.sampled[j])

RelocationCopies == [][RelocationSteps]_vars

RelocationCopiesWitness ==
    /\ pc = "add_new_gs"
    /\ ret > 0
    /\ Len(loc.sampled) = ret
    /\ \E j, k \in 1..ret : j # k /\ loc.sampled[j] = loc.sampled[k]
    /\ \E j, k \in 1..ret : loc.sampled[j] # loc.sampled[k]

-----------------------------------------------------------------------------
\* n_new for a growth target
NNewFor(target, current_n, max_cap) == Max(0, Min(max_cap, target) - current_n)

\* 1.05 * n rounded to the nearest integer
Round105(n) == (105 * n + 50) \div 100

-----------------------------------------------------------------------------
\* C10: is_refining(iter) returns true iff start_refine < iter < stop_refine and
\* iter % refine_every = 0, and changes nothing of the model or the optimizer (so
\* two calls with the same iter return the same result)
IsRefiningSteps ==
    pc' = "is_refining" =>
        /\ ret' = (/\ params.start_refine < arg'
                   /\ arg' < params.stop_refine
                   /\ arg' % params.refine_every = 0)
        /\ UNCHANGED <<modelVars, iter>>

IsRefiningPure == [][IsRefiningSteps]_vars

\* a call that returned true for an iteration that is a multiple of a period > 1
IsRefiningPureWitness ==
    /\ pc = "is_refining"
    /\ ret = TRUE
    /\ params.refine_every > 1
    /\ arg > params.refine_every

-----------------------------------------------------------------------------
\* C9: a renderer that reads the model while holding the splat mutex never sees
\* a half-updated parameter set: while it is between lock and unlock the
\* training thread is not between the first and the last write of relocate_gs or
\* add_new_gs, and what rasterize has read is six fields of one length, read
\* at a position outside those writes
NoTornRead ==
    /\ rpc \in {"rasterize", "unlock"} => pc \notin MidUpdatePcs
    /\ view # <<>> =>
          /\ \A f \in Fields : Len(view.rows[f]) = Len(view.rows[MEANS])
          /\ view.at \notin MidUpdatePcs

\* the renderer holds the mutex on a grown model while the training thread waits
\* with a refinement due
NoTornReadWitness ==
    /\ rpc = "unlock"
    /\ mutex = "renderer"
    /\ view # <<>>
    /\ Len(view.rows[MEANS]) > InitN
    /\ pc = "post_backward"
    /\ IsRefining(iter)

-----------------------------------------------------------------------------
\* C11: in every post_backward(iter) call inject_noise runs exactly once and last,
\* and relocate_gs then add_new_gs run before it, in that order, if and only if
\* is_refining(iter) holds
PostBackwardOrderSteps ==
    /\ pc = "post_backward" =>
          pc' = IF IsRefining(iter) THEN "relocate_gs" ELSE "inject_noise"
    /\ pc = "relocate_gs" => (pc' = "add_new_gs" /\ IsRefining(iter))
    /\ pc = "add_new_gs" => (pc' = "inject_noise" /\ IsRefining(iter))
    /\ pc = "inject_noise" => (pc' = "step" /\ iter' = iter)
    /\ pc' = "inject_noise" => pc \in {"post_backward", "add_new_gs"}
    /\ pc' = "step" => pc = "inject_noise"

PostBackwardOrder == [][PostBackwardOrderSteps]_vars

\* post_backward has returned from a refining iteration that grew the model
PostBackwardOrderWitness ==
    /\ pc = "step"
    /\ IsRefining(iter)
    /\ loc = NoLocals
    /\ Size > InitN
    /\ \E id \in Range(field_id) : ~heap[id].grad.defined

-----------------------------------------------------------------------------
\* step counter of the Adam state of tensor id in the state map st (0: no state)
StepCount(st, id) == IF id \in DOMAIN st THEN st[id].step ELSE 0

\* C12: with iter < iterations, step(iter) makes one optimizer step (the step
\* counter of every group whose parameter holds a gradient goes up by one, a group
\* without gradient keeps its state), leaves no gradient behind and advances the
\* scheduler once; with iter >= iterations it changes nothing
StepEffectSteps ==
    pc = "step" =>
        IF iter < params.iterations
        THEN /\ \A g \in Fields :
                  LET id == opt_param[g]
                  IN  IF heap[id].grad.defined
                      THEN StepCount(opt_state', id) = StepCount(opt_state, id) + 1
                      ELSE /\ StepCount(opt_state', id) = StepCount(opt_state, id)
                           /\ heap'[id].rows = heap[id].rows
             /\ \A id \in DOMAIN heap' : ~heap'[id].grad.defined
             /\ opt_lr'[MEANS] = opt_lr[MEANS] + 1
             /\ opt_param' = opt_param /\ field_id' = field_id
        ELSE UNCHANGED modelVars

StepEffect == [][StepEffectSteps]_vars

\* the run is over: the last call, step(iterations), came after iterations - 1
\* calls that stepped the optimizer
StepEffectWitness ==
    /\ pc = "done"
    /\ opt_lr[MEANS] = params.iterations - 1
    /\ \E id \in DOMAIN opt_state : opt_state[id].step > 0
    /\ \E id \in DOMAIN heap : heap[id].grad.defined

-----------------------------------------------------------------------------
\* C13: gamma is fixed by initialize at 0.01^(1/iterations) and every scheduler
\* step multiplies the rate of the position group by it once: after k steps the
\* rate is initial_lr * gamma^k = initial_lr * 0.01^(k/iterations), which is
\* initial_lr * 0.01 after exactly `iterations` steps
SchedulerDecay ==
    opt_init =>
        LET k == iter - 1
        IN  /\ LrDecay(MEANS) = [num |-> k, den |-> params.iterations]
            /\ (LrDecay(MEANS).num = LrDecay(MEANS).den) <=> (k = params.iterations)

\* exactly `iterations` scheduler steps were taken, with iterations > 1
SchedulerDecayWitness ==
    /\ opt_init
    /\ params.iterations > 1
    /\ iter - 1 = params.iterations
    /\ LrDecay(MEANS).num = LrDecay(MEANS).den

-----------------------------------------------------------------------------
\* C14: the scheduler changes the learning rate of the position group only: the
\* rates of the other five groups stay at their initialize-time values
OtherRatesConstant ==
    opt_init => \A g \in Fields \ {MEANS} : opt_lr[g] = 0

\* the position rate has decayed more than once on a grown model
OtherRatesConstantWitness ==
    /\ opt_init
    /\ opt_lr[MEANS] > 1
    /\ \A g \in Fields \ {MEANS} : opt_lr[g] = 0
    /\ Size > InitN

-----------------------------------------------------------------------------
\* C15: relocate_gs returns 0 and changes no model field and no optimizer state
\* when no row is dead, and likewise when no row is alive
RelocationNoOpSteps ==
    (pc = "relocate_gs" /\ (Len(DeadIndices) = 0 \/ Len(AliveIndices) = 0)) =>
        /\ ret' = 0
        /\ UNCHANGED modelVars

RelocationNoOp == [][RelocationNoOpSteps]_vars

\* relocate_gs has returned 0 on a model without dead rows that has Adam state
RelocationNoOpWitness ==
    /\ pc = "add_new_gs"
    /\ ret = 0
    /\ loc = NoLocals
    /\ Len(DeadIndices) = 0
    /\ \E id \in DOMAIN opt_state : opt_state[id].step > 0

-----------------------------------------------------------------------------
\* C16: add_new_gs returns 0 and changes no model field, no optimizer parameter
\* and no optimizer state when the optimizer is not initialized, when N >= max_cap,
\* and whenever the n_new it computes is 0
GrowthNoOpSteps ==
    pc = "add_new_gs" =>
        IF ~opt_init
        THEN ret' = 0 /\ UNCHANGED modelVars
        ELSE (Size >= params.max_cap \/ NNew(Size, params.max_cap) = 0) =>
                 (ret' = 0 /\ UNCHANGED modelVars)

GrowthNoOp == [][GrowthNoOpSteps]_vars

\* add_new_gs has returned 0 in a refining iteration on a model at or above max_cap
\* whose optimizer holds Adam state
GrowthNoOpWitness ==
    /\ pc = "inject_noise"
    /\ opt_init
    /\ IsRefining(iter)
    /\ ret = 0
    /\ Size >= params.max_cap
    /\ \E id \in DOMAIN opt_state : opt_state[id].step > 0

-----------------------------------------------------------------------------
\* C17: called with M weights and a count n, the weighted sampler returns exactly
\* n indices, each a row of the weight vector, on the library path and on the
\* manual path
SamplerRange ==
    pc \in {"manual_sample", "library_sample"} =>
        /\ Len(ret) = arg.n
        /\ \A j \in 1..Len(ret) : ret[j] \in 1..Len(arg.weights)

\* the manual path has answered a draw that lies above the whole cumulative sum
SamplerRangeWitness ==
    /\ pc = "manual_sample"
    /\ arg.short
    /\ arg.n = MaxDraws
    /\ Len(ret) = MaxDraws
    /\ \E j \in 1..Len(ret) : arg.us[j] = UGrid /\ ret[j] = 1
    /\ Len(arg.weights) = MaxSampleLen

-----------------------------------------------------------------------------
\* C18: on the manual path, for weights of positive sum and every draw u in
\* [0, 1), the index returned has a strictly positive weight (an index of weight 0
\* is never returned), as on the library path; stated for cumulative sums that
\* carry no rounding error
ManualNeverZeroWeight ==
    (/\ pc = "manual_sample"
     /\ ~arg.short
     /\ \E i \in 1..Len(arg.weights) : arg.weights[i] > 0) =>
        \A j \in 1..Len(ret) : arg.weights[ret[j]] > 0

-----------------------------------------------------------------------------
\* C19 (as stated): the replication ratio of every sampled element lies in
\* [1, cap - 1], cap = 51 being the size of the binomial table
RatioBelowCap ==
    pc = "calculate_relocation_ratios" =>
        \A j \in 1..Len(ret) : ret[j] \in 1..(BinomialMaxN - 1)

\* C19 (amended): the replication ratio of every sampled element is the number
\* of times the element was sampled plus one, clamped to [1, cap]: it lies in
\* [1, cap] and reaches cap = 51 itself
RatioWithinCap ==
    pc = "calculate_relocation_ratios" =>
        /\ Len(ret) = Len(arg)
        /\ \A j \in 1..Len(ret) :
              /\ ret[j] \in 1..BinomialMaxN
              /\ ret[j] = Min(Cardinality({i \in 1..Len(arg) : arg[i] = arg[j]}) + 1,
                              BinomialMaxN)

\* a row sampled more than cap times gets ratio cap, another row of the same
\* sample a ratio below it
RatioWithinCapWitness ==
    /\ pc = "calculate_relocation_ratios"
    /\ Len(arg) > BinomialMaxN + 1
    /\ \E j \in 1..Len(ret) : ret[j] = BinomialMaxN /\ arg[j] = 1
    /\ \E j \in 1..Len(ret) : ret[j] < BinomialMaxN /\ arg[j] = 2

-----------------------------------------------------------------------------
\* C20 (as stated): for every configured min_opacity and every relocation output
\* the value update_opacity_raw hands to logit is strictly between 0 and 1, so no
\* infinite opacity_raw is stored
LogitArgumentInside ==
    pc = "update_opacity_raw" =>
        \A j \in 1..Len(arg.new_opacities) :
            /\ Sigmoid(ret[j]) > 0
            /\ Sigmoid(ret[j]) < OpOne

\* C20 (amended): for every configured min_opacity > 0 and every relocation output
\* the value update_opacity_raw hands to logit is strictly between 0 and 1 (at
\* least min(min_opacity, 1 - 1e-7) and at most 1 - 1e-7), so no infinite
\* opacity_raw is stored; with min_opacity <= 0 a relocation output of 0 is handed
\* on as 0
LogitArgumentInsidePositive ==
    (pc = "update_opacity_raw" /\ arg.min_opacity > 0) =>
        \A j \in 1..Len(arg.new_opacities) :
            /\ Sigmoid(ret[j]) >= Min(arg.min_opacity, OpClampMax)
            /\ Sigmoid(ret[j]) <= OpClampMax
            /\ Sigmoid(ret[j]) > 0
            /\ Sigmoid(ret[j]) < OpOne

\* both ends of the clamp were needed in one call
LogitArgumentInsideWitness ==
    /\ pc = "update_opacity_raw"
    /\ arg.min_opacity > 0
    /\ arg.min_opacity < OpClampMax
    /\ arg.new_opacities = <<0, OpOne>>
    /\ ret = <<Logit(arg.min_opacity), Logit(OpClampMax)>>

-----------------------------------------------------------------------------
\* rows of a moment buffer after a reset at the sampled rows: those rows are zero,
\* the others as before
ResetAt(new, old, sampled) ==
    /\ Len(new) = Len(old)
    /\ \A i \in 1..Len(old) : new[i] = IF i \in sampled THEN 0 ELSE old[i]

\* C21: after relocate_gs, in every group that has Adam state the moment rows at
\* the sampled indices are zero, every other row (the dead rows included) and the
\* step counter are unchanged; a group without state is left without state
RelocationResetSteps ==
    pc = "relocate_gs" =>
        /\ opt_param' = opt_param
        /\ DOMAIN opt_state' = DOMAIN opt_state
        /\ \A g \in Fields :
              opt_param[g] \in DOMAIN opt_state =>
                  LET old == opt_state[opt_param[g]]
                      new == opt_state'[opt_param[g]]
                      sampled == Range(loc'.sampled)
                  IN  /\ new.step = old.step
                      /\ ResetAt(new.exp_avg, old.exp_avg, sampled)
                      /\ ResetAt(new.exp_avg_sq, old.exp_avg_sq, sampled)
                      /\ new.max_exp_avg_sq.defined = old.max_exp_avg_sq.defined
                      /\ ResetAt(new.max_exp_avg_sq.rows, old.max_exp_avg_sq.rows, sampled)

RelocationReset == [][RelocationResetSteps]_vars

\* relocate_gs has relocated on a model whose six groups have stepped: a sampled
\* row has zero moments, a dead row and an alive row that was not sampled keep
\* nonzero ones
RelocationResetWitness ==
    /\ pc = "add_new_gs"
    /\ ret > 0
    /\ \A g \in Fields :
          /\ opt_param[g] \in DOMAIN opt_state
          /\ opt_state[opt_param[g]].step > 0
          /\ \E i \in Range(loc.sampled) : opt_state[opt_param[g]].exp_avg[i] = 0
          /\ \E i \in Range(loc.dead) : opt_state[opt_param[g]].exp_avg[i] > 0
          /\ \E i \in (1..Size) \ (Range(loc.dead) \cup Range(loc.sampled)) :
                 opt_state[opt_param[g]].exp_avg_sq[i] > 0

-----------------------------------------------------------------------------
\* C22: once initialized, each group's tracked parameter is the very tensor of the
\* corresponding model field and every key of the state map is the identity of a
\* tracked parameter; a growth leaves no entry under a pre-growth identity and
\* puts an entry under the new identity exactly for the groups that had state
TrackedIdentitySteps ==
    /\ opt_init' =>
          /\ \A g \in Fields : opt_param'[g] = field_id'[g]
          /\ DOMAIN opt_state' \subseteq Range(opt_param')
    /\ (pc = "add_new_gs" /\ ret' > 0) =>
          \A g \in Fields :
              /\ opt_param'[g] # opt_param[g]
              /\ opt_param[g] \notin DOMAIN opt_state'
              /\ opt_param'[g] \in DOMAIN opt_state' <=> opt_param[g] \in DOMAIN opt_state

TrackedIdentity == [][TrackedIdentitySteps]_vars

\* a model that grew while no group had state: model and optimizer hold the new
\* tensors and the state map is still empty
TrackedIdentityWitness ==
    /\ opt_init
    /\ pc = "inject_noise"
    /\ ret > 0
    /\ Size = InitN + ret
    /\ DOMAIN opt_state = {}
    /\ \A g \in Fields : opt_param[g] = field_id[g] /\ field_id[g] = NewTensorId(g)

-----------------------------------------------------------------------------
\* C23: after add_new_gs has added n_new rows, appended row N+j equals in all six
\* fields the row at the j-th sampled index as it is after the parents' update;
\* of the first N rows those not sampled are unchanged in every field and the
\* sampled ones change in opacity_raw and scaling_raw only
GrowthCopiesSteps ==
    (pc = "add_new_gs" /\ ret' > 0) =>
        /\ Len(loc'.sampled) = ret'
        /\ \A j \in 1..ret' : loc'.sampled[j] \in 1..Size
        /\ \A f \in Fields :
              /\ Len(Rows(f)') = Size + ret'
              /\ \A j \in 1..ret' : Rows(f)'[Size + j] = Rows(f)'[loc'.sampled[j]]
              /\ \A i \in 1..Size :
                    (i \notin Range(loc'.sampled) \/ f \notin {OPACITY, SCALING}) =>
                        Rows(f)'[i] = Rows(f)[i]

GrowthCopies == [][GrowthCopiesSteps]_vars

\* add_new_gs has just appended a copy of a parent whose opacity the update has
\* brought down from saturation to the top of the clamp
GrowthCopiesWitness ==
    /\ pc = "inject_noise"
    /\ ret > 0
    /\ Len(loc.sampled) = ret
    /\ \E j \in 1..ret :
          /\ loc.sampled[j] <= Size - ret
          /\ GetOpacity[loc.sampled[j]] = OpClampMax
          /\ \A f \in Fields : Rows(f)[Size - ret + j] = Rows(f)[loc.sampled[j]]

-----------------------------------------------------------------------------
\* number of positions of the sample that hold index i
Occurrences(sample, i) == Cardinality({j \in 1..Len(sample) : sample[j] = i})

\* C24: the replication ratio of a sampled index is the number of times the index
\* occurs in the sample plus one, clamped to [1, cap]; all occurrences of one
\* index get the same ratio
RatioIsCountPlusOne ==
    pc = "calculate_relocation_ratios" =>
        /\ \A j \in 1..Len(arg) :
              LET plus_one == Occurrences(arg, arg[j]) + 1
              IN  ret[j] = IF plus_one < 1 THEN 1
                           ELSE IF plus_one > BinomialMaxN THEN BinomialMaxN
                           ELSE plus_one
        /\ \A j, k \in 1..Len(arg) : arg[j] = arg[k] => ret[j] = ret[k]

\* a sample in which two indices occur a different number of times, both below
\* the clamp
RatioIsCountPlusOneWitness ==
    /\ pc = "calculate_relocation_ratios"
    /\ \E j, k \in 1..Len(arg) :
          /\ arg[j] # arg[k]
          /\ ret[j] = 4
          /\ ret[k] = 3

-----------------------------------------------------------------------------
\* what a linear scan returns: the first index whose cumulative sum is not below
\* u, and the index one past the end when every cumulative sum is below u
InsertionPoint(below) ==
    IF \E i \in 1..Len(below) : ~below[i]
    THEN CHOOSE i \in 1..Len(below) : ~below[i] /\ \A k \in 1..(i - 1) : below[k]
    ELSE Len(below) + 1

\* C25: for weights of positive sum the binary search of the manual path returns
\* the insertion point of u in the cumulative sums, the smallest index whose
\* cumulative sum is at least u, as a linear scan does, also when u is larger
\* than the last cumulative sum
BinarySearchInsertionPoint ==
    (/\ pc = "manual_sample"
     /\ \E i \in 1..Len(arg.weights) : arg.weights[i] > 0) =>
        \A j \in 1..Len(ret) :
            ret[j] = InsertionPoint(CumsumBelow(arg.weights, arg.us[j], arg.short))

-----------------------------------------------------------------------------
GrowthCallOutcome ==
    (pc = "n_new" /\ arg[1] < arg[2]) =>
        IF arg[1] >= 20
        THEN ret >= 1 /\ arg[1] + ret <= arg[2]
        ELSE ret = 0

\* the next refinement iteration runs on the grown model under the same max_cap
GrowthCarriesOn ==
    pc = "n_new" => (arg'[1] = arg[1] + ret /\ arg'[2] = arg[2])

\* a call made while 20 <= N < max_cap, and a call that left N = max_cap
GrowthCallBelowCap == pc = "n_new" /\ arg[1] >= 20 /\ arg[1] < arg[2]
GrowthCallFilled == pc = "n_new" /\ arg[1] + ret = arg[2]

-----------------------------------------------------------------------------
\* C27: inject_noise changes the position field only: scaling_raw, rotation_raw,
\* opacity_raw, sh0, shN, N, every learning rate, every moment buffer and every
\* step counter are as before
NoiseOnlyMovesSteps ==
    (pc = "inject_noise" /\ opt_init) =>
        /\ \A f \in Fields \ {MEANS} : Rows(f)' = Rows(f)
        /\ Len(Rows(MEANS)') = Size
        /\ field_id' = field_id
        /\ opt_param' = opt_param
        /\ opt_lr' = opt_lr
        /\ opt_state' = opt_state

NoiseOnlyMoves == [][NoiseOnlyMovesSteps]_vars

\* the first inject_noise has moved a row that no optimizer step has touched,
\* on a model whose other fields are as constructed
NoiseOnlyMovesWitness ==
    /\ pc = "step"
    /\ iter = 1
    /\ Rows(MEANS)[InitN - 1] # InitRows(MEANS, MaxInitDead)[InitN - 1]
    /\ \A f \in Fields \ {MEANS} : Rows(f) = InitRows(f, MaxInitDead)

-----------------------------------------------------------------------------
\* C28: relocate_gs modifies only rows that are dead or were sampled: an alive row
\* that was not sampled is unchanged in all six fields, and a sampled row changes
\* in opacity_raw and scaling_raw only
RelocationFrameSteps ==
    pc = "relocate_gs" =>
        /\ field_id' = field_id
        /\ \A f \in Fields : Len(Rows(f)') = Len(Rows(f))
        /\ \A i \in 1..Size :
              /\ (i \in Range(AliveIndices) /\ i \notin Range(loc'.sampled)) =>
                     \A f \in Fields : Rows(f)'[i] = Rows(f)[i]
              /\ i \in Range(loc'.sampled) =>
                     \A f \in Fields \ {OPACITY, SCALING} : Rows(f)'[i] = Rows(f)[i]

RelocationFrame == [][RelocationFrameSteps]_vars

\* the first relocation of a run has lowered the opacity of a sampled row that
\* nothing else had touched, and has left another alive row at its initial opacity
RelocationFrameWitness ==
    /\ pc = "add_new_gs"
    /\ ret > 0
    /\ iter = RunRefineEvery
    /\ \E s \in Range(loc.sampled) :
          /\ s \in (MaxInitDead + 2)..(InitN - 1)
          /\ GetOpacity[s] < InitOpacityLevel(s, MaxInitDead)
    /\ \E i \in (MaxInitDead + 2)..(InitN - 1) :
          /\ i \notin Range(loc.sampled)
          /\ GetOpacity[i] = InitOpacityLevel(i, MaxInitDead)

-----------------------------------------------------------------------------
\* the binomial coefficient by Pascal's rule, in exact integer arithmetic
RECURSIVE Binomial(_, _)
Binomial(n, k) ==
    IF k < 0 \/ k > n THEN 0
    ELSE IF k = 0 \/ k = n THEN 1
    ELSE Binomial(n - 1, k - 1) + Binomial(n - 1, k)

\* C29: entry [n][k] of the binomial table is C(n, k) for 0 <= k <= n < cap and 0
\* for k > n; stated for the rows up to MaxExactN, whose coefficients are small
\* integers that a float holds exactly
BinomialTableExact ==
    (pc = "init_binomial_coefficients" /\ arg[1] <= MaxExactN) =>
        ret = F32FromInt(Binomial(arg[1], arg[2]))

-----------------------------------------------------------------------------
\* C30: post_backward(iter) raises the model's active spherical-harmonics degree by
\* one increment when iter is a multiple of 1000 and leaves it alone otherwise,
\* whether or not iter is a refining iteration; nothing else changes the degree
ShDegreeSteps ==
    IF pc = "post_backward" /\ pc' # "post_backward"
    THEN sh_degree' = IF iter % ShEvery = 0 THEN IncrementShDegree(sh_degree)
                      ELSE sh_degree
    ELSE sh_degree' = sh_degree

ShDegreeEvery1000 == [][ShDegreeSteps]_vars

\* the degree has gone up at a multiple of 1000 outside the refinement window,
\* after an earlier multiple inside it had raised it once
ShDegreeEvery1000Witness ==
    /\ pc = "inject_noise"
    /\ iter % ShEvery = 0
    /\ ~IsRefining(iter)
    /\ sh_degree = MaxShDegree
    /\ MaxShDegree > 1

=============================================================================
